---- MODULE Spec2Model ----
(***************************************************************************)
(* FlatBuffers option-table bindings of the circle / tflite file tools     *)
(* (FullyConnectedOptions, BCQGatherOptions, MulOptions, SubOptions,       *)
(* ResizeBilinearOptions) together with the builder / table runtime they   *)
(* call, and the js2h5 JSON -> HDF5 conversion loop.                       *)
(*                                                                         *)
(* The bindings are translated from the generated Python.  The runtime     *)
(* they call (flatbuffers.Builder, flatbuffers.table.Table, encode.Get)    *)
(* is not part of the repository sources; it is modelled at byte level     *)
(* from the format description (sections 3, 4 and 6 of the specification). *)
(***************************************************************************)
EXTENDS Integers, Sequences, FiniteSets, TLC

(***************************************************************************)
(* Bounds of the model.                                                    *)
(***************************************************************************)
MaxCalls == 6       \* Start, Add and End calls issued on one builder
MaxKeys == 3        \* keys of the JSON object given to js2h5

(***************************************************************************)
(* Scalar encodings (little-endian, two's complement).                     *)
(***************************************************************************)
RECURSIVE Pow256(_)
Pow256(w) == IF w = 0 THEN 1 ELSE 256 * Pow256(w - 1)

\* bytewidth of the number types used by the bindings and by the runtime
BYTEWIDTH ==
  [Int8 |-> 1, Bool |-> 1, Int32 |-> 4, UOffset |-> 4, SOffset |-> 4, VOffset |-> 2]

IsSigned(flags) == flags \in {"Int8", "Int32", "SOffset"}

\* the w little-endian bytes of the number n (negative n in two's complement)
LE(n, w) == [i \in 1..w |-> (n \div Pow256(i - 1)) % 256]

RECURSIVE FromLE(_)
FromLE(s) == IF s = <<>> THEN 0 ELSE Head(s) + 256 * FromLE(Tail(s))

\* struct.pack of a value of the given number type
Pack(flags, x) == LE(x, BYTEWIDTH[flags])

\* an unsigned 32-bit value of 2^31 or more is represented by Huge, which lies
\* beyond the end of every buffer of the model
Huge == 2147418112

\* struct.unpack of the bytes s as the given number type ('?' yields a bool)
Unpack(flags, s) ==
  LET w == BYTEWIDTH[flags]
      top == s[w]
      low == FromLE(SubSeq(s, 1, w - 1))
  IN  IF flags = "Bool" THEN top # 0
      ELSE IF top < 128 THEN low + Pow256(w - 1) * top
      ELSE IF IsSigned(flags) THEN low + Pow256(w - 1) * (top - 256)
      ELSE IF w = 4 THEN Huge
      ELSE low + Pow256(w - 1) * top

Max(a, b) == IF a >= b THEN a ELSE b

Zeros(n) == [i \in 1..n |-> 0]

(***************************************************************************)
(* Builder.  The written region of the buffer is the sequence Bytes, head  *)
(* first: the buffer is filled back to front, so writing prepends, and     *)
(* Offset() (the distance of the head from the end) is Len(Bytes).         *)
(***************************************************************************)
NoVtable == <<>>

NewBuilder ==
  [Bytes |-> <<>>, minalign |-> 1, current_vtable |-> NoVtable, objectEnd |-> 0,
   nested |-> FALSE, vtables |-> <<>>, finished |-> FALSE]

Offset(b) == Len(b.Bytes)

Pad(b, n) == [b EXCEPT !.Bytes = Zeros(n) \o @]

\* pad so that `size` is aligned after `additionalBytes` more bytes are written
Prep(b, size, additionalBytes) ==
  LET alignSize == (0 - (Offset(b) + additionalBytes)) % size
  IN  Pad([b EXCEPT !.minalign = Max(@, size)], alignSize)

Place(b, flags, x) == [b EXCEPT !.Bytes = Pack(flags, x) \o @]

Prepend(b, flags, x) == Place(Prep(b, BYTEWIDTH[flags], 0), flags, x)

\* overwrite the bytes at distance `off` from the end of the buffer
WriteAt(b, flags, off, x) ==
  LET start == Len(b.Bytes) - off
      w == BYTEWIDTH[flags]
      p == Pack(flags, x)
  IN  [b EXCEPT !.Bytes =
         [i \in 1..Len(@) |-> IF i > start /\ i <= start + w THEN p[i - start] ELSE @[i]]]

\* a StartObject that accepts an open object
assertNotNested_Never(b) == TRUE

\* StartObject refuses to open an object inside an open one
assertNotNested(b) == ~b.nested

StartObject(b, numfields) ==
  [b EXCEPT !.current_vtable = Zeros(numfields), !.objectEnd = Offset(b), !.nested = TRUE]

Slot(b, slotnum) == [b EXCEPT !.current_vtable[slotnum + 1] = Offset(b)]

\* a value equal to the default d is not written and gets no slot
PrependSlot(b, flags, o, x, d) ==
  IF x # d THEN Slot(Prepend(b, flags, x), o) ELSE b

RECURSIVE TrimTrailingZeros(_)
TrimTrailingZeros(vt) ==
  IF vt # <<>> /\ vt[Len(vt)] = 0 THEN TrimTrailingZeros(SubSeq(vt, 1, Len(vt) - 1)) ELSE vt

\* the content of the vtable of the object under construction, as voffsets:
\* vtable size in bytes, object size in bytes, one entry per slot (0 = absent)
VtableContent(vt, objectOffset, objectEnd) ==
  <<2 * (Len(vt) + 2), objectOffset - objectEnd>> \o
  [i \in 1..Len(vt) |-> IF vt[i] # 0 THEN objectOffset - vt[i] ELSE 0]

RECURSIVE PackVOffsets(_)
PackVOffsets(s) == IF s = <<>> THEN <<>> ELSE Pack("VOffset", Head(s)) \o PackVOffsets(Tail(s))

\* the bytes of the vtable that was written at distance vtOffset from the end
VtableBytesAt(bytes, vtOffset) ==
  LET start == Len(bytes) - vtOffset
      len == FromLE(SubSeq(bytes, start + 1, start + 2))
  IN  SubSeq(bytes, start + 1, start + len)

\* a vtable search that never finds an equal vtable
ExistingVtables_NoReuse(b, c) == {}

\* the previously written vtables equal, byte for byte, to the content c,
\* as indexes into b.vtables
ExistingVtables(b, c) ==
  {i \in 1..Len(b.vtables) : VtableBytesAt(b.Bytes, b.vtables[i]) = PackVOffsets(c)}

\* the vtable is written in front of the object, unless an equal one exists;
\* the object's soffset is then set to the distance to its vtable
WriteVtable(b) ==
  LET b1 == Prepend(b, "SOffset", 0)
      objectOffset == Offset(b1)
      vt == TrimTrailingZeros(b.current_vtable)
      c == VtableContent(vt, objectOffset, b.objectEnd)
      ex == ExistingVtables(b1, c)
  IN  IF ex = {}
      THEN LET b2 == [b1 EXCEPT !.Bytes = PackVOffsets(c) \o @]
               b3 == WriteAt(b2, "SOffset", objectOffset, Offset(b2) - objectOffset)
           IN  [b3 EXCEPT !.vtables = Append(@, Offset(b2)), !.current_vtable = NoVtable]
      ELSE LET existingVtable == b.vtables[CHOOSE i \in ex : \A j \in ex : j <= i]
               b3 == WriteAt(b1, "SOffset", objectOffset, existingVtable - objectOffset)
           IN  [b3 EXCEPT !.current_vtable = NoVtable]

EndObject(b) == [WriteVtable(b) EXCEPT !.nested = FALSE]

\* the offset EndObject returns: the position of the object's soffset
EndObjectOffset(b) == Offset(Prepend(b, "SOffset", 0))

\* the root uoffset is written at the head, aligned to the largest alignment
Finish(b, rootTable) ==
  LET b1 == Prep(b, b.minalign, BYTEWIDTH["UOffset"])
      b2 == Prep(b1, BYTEWIDTH["UOffset"], 0)
      off2 == Offset(b2) - rootTable + BYTEWIDTH["UOffset"]
  IN  [Place(b2, "UOffset", off2) EXCEPT !.finished = TRUE]

(***************************************************************************)
(* Reader runtime: encode.Get and flatbuffers.table.Table.                 *)
(***************************************************************************)
\* struct.unpack_from: a negative offset counts from the end of the buffer
GetStart(buf, off) == IF off < 0 THEN off + Len(buf) ELSE off

GetOk(buf, flags, off) ==
  GetStart(buf, off) >= 0 /\ GetStart(buf, off) + BYTEWIDTH[flags] <= Len(buf)

Get(buf, flags, off) ==
  Unpack(flags, SubSeq(buf, GetStart(buf, off) + 1, GetStart(buf, off) + BYTEWIDTH[flags]))

Table(buf, pos) == [Bytes |-> buf, Pos |-> pos]

Failed == [ok |-> FALSE, val |-> 0]
Got(v) == [ok |-> TRUE, val |-> v]

\* Table.Offset: the entry of the table's vtable at byte offset vtableOffset,
\* or 0 when the vtable is too short to hold it
TableOffset(tab, vtableOffset) ==
  IF ~GetOk(tab.Bytes, "SOffset", tab.Pos) THEN Failed
  ELSE LET vtable == tab.Pos - Get(tab.Bytes, "SOffset", tab.Pos)
       IN  IF ~GetOk(tab.Bytes, "VOffset", vtable) THEN Failed
           ELSE LET vtableEnd == Get(tab.Bytes, "VOffset", vtable)
                IN  IF vtableOffset < vtableEnd
                    THEN IF GetOk(tab.Bytes, "VOffset", vtable + vtableOffset)
                         THEN Got(Get(tab.Bytes, "VOffset", vtable + vtableOffset))
                         ELSE Failed
                    ELSE Got(0)

(***************************************************************************)
(* The generated bindings.  For each table type: the field count given to  *)
(* StartObject, the Prepend*Slot call of each Add function (slot, number   *)
(* type, default) and the accessor of each field (vtable byte offset,      *)
(* number type, default returned).                                         *)
(***************************************************************************)
FullyConnectedOptionsStart == 4

\* FullyConnectedOptionsAddWeightsFormat writing slot 0 instead of slot 1
FullyConnectedOptionsAdd_WrongSlot ==
  [FusedActivationFunction  |-> [slot |-> 0, flags |-> "Int8", d |-> 0],
   WeightsFormat            |-> [slot |-> 0, flags |-> "Int8", d |-> 0],
   KeepNumDims              |-> [slot |-> 2, flags |-> "Bool", d |-> 0],
   AsymmetricQuantizeInputs |-> [slot |-> 3, flags |-> "Bool", d |-> 0]]

FullyConnectedOptionsAdd ==
  [FusedActivationFunction  |-> [slot |-> 0, flags |-> "Int8", d |-> 0],
   WeightsFormat            |-> [slot |-> 1, flags |-> "Int8", d |-> 0],
   KeepNumDims              |-> [slot |-> 2, flags |-> "Bool", d |-> 0],
   AsymmetricQuantizeInputs |-> [slot |-> 3, flags |-> "Bool", d |-> 0]]

\* FullyConnectedOptions.KeepNumDims looking up vtable offset 6 instead of 8
FullyConnectedOptions_WrongVOffset ==
  [FusedActivationFunction  |-> [voffset |-> 4,  flags |-> "Int8", default |-> 0],
   WeightsFormat            |-> [voffset |-> 6,  flags |-> "Int8", default |-> 0],
   KeepNumDims              |-> [voffset |-> 6,  flags |-> "Bool", default |-> FALSE],
   AsymmetricQuantizeInputs |-> [voffset |-> 10, flags |-> "Bool", default |-> FALSE]]

FullyConnectedOptions ==
  [FusedActivationFunction  |-> [voffset |-> 4,  flags |-> "Int8", default |-> 0],
   WeightsFormat            |-> [voffset |-> 6,  flags |-> "Int8", default |-> 0],
   KeepNumDims              |-> [voffset |-> 8,  flags |-> "Bool", default |-> FALSE],
   AsymmetricQuantizeInputs |-> [voffset |-> 10, flags |-> "Bool", default |-> FALSE]]

BCQGatherOptionsStart == 2

BCQGatherOptionsAdd ==
  [InputHiddenSize |-> [slot |-> 0, flags |-> "Int32", d |-> 0],
   Axis            |-> [slot |-> 1, flags |-> "Int32", d |-> 0]]

BCQGatherOptions ==
  [InputHiddenSize |-> [voffset |-> 4, flags |-> "Int32", default |-> 0],
   Axis            |-> [voffset |-> 6, flags |-> "Int32", default |-> 0]]

MulOptionsStart == 1

\* MulOptionsAddFusedActivationFunction passing -1 as the default
MulOptionsAdd_WrongDefault ==
  [FusedActivationFunction |-> [slot |-> 0, flags |-> "Int8", d |-> -1]]

MulOptionsAdd == [FusedActivationFunction |-> [slot |-> 0, flags |-> "Int8", d |-> 0]]

MulOptions == [FusedActivationFunction |-> [voffset |-> 4, flags |-> "Int8", default |-> 0]]

SubOptionsStart == 1

SubOptionsAdd == [FusedActivationFunction |-> [slot |-> 0, flags |-> "Int8", d |-> 0]]

SubOptions == [FusedActivationFunction |-> [voffset |-> 4, flags |-> "Int8", default |-> 0]]

ResizeBilinearOptionsStart == 3

ResizeBilinearOptionsAdd == [AlignCorners |-> [slot |-> 2, flags |-> "Bool", d |-> 0]]

\* ResizeBilinearOptions.AlignCorners looking up vtable offset 6 instead of 8
ResizeBilinearOptions_WrongVOffset ==
  [AlignCorners |-> [voffset |-> 6, flags |-> "Bool", default |-> FALSE]]

ResizeBilinearOptions ==
  [AlignCorners |-> [voffset |-> 8, flags |-> "Bool", default |-> FALSE]]

Types ==
  {"FullyConnectedOptions", "BCQGatherOptions", "MulOptions", "SubOptions",
   "ResizeBilinearOptions"}

StartOf(T) ==
  CASE T = "FullyConnectedOptions" -> FullyConnectedOptionsStart
    [] T = "BCQGatherOptions"      -> BCQGatherOptionsStart
    [] T = "MulOptions"            -> MulOptionsStart
    [] T = "SubOptions"            -> SubOptionsStart
    [] T = "ResizeBilinearOptions" -> ResizeBilinearOptionsStart

AddOf(T) ==
  CASE T = "FullyConnectedOptions" -> FullyConnectedOptionsAdd
    [] T = "BCQGatherOptions"      -> BCQGatherOptionsAdd
    [] T = "MulOptions"            -> MulOptionsAdd
    [] T = "SubOptions"            -> SubOptionsAdd
    [] T = "ResizeBilinearOptions" -> ResizeBilinearOptionsAdd

AccessorsOf(T) ==
  CASE T = "FullyConnectedOptions" -> FullyConnectedOptions
    [] T = "BCQGatherOptions"      -> BCQGatherOptions
    [] T = "MulOptions"            -> MulOptions
    [] T = "SubOptions"            -> SubOptions
    [] T = "ResizeBilinearOptions" -> ResizeBilinearOptions

\* Accessor without the `if o != 0` test: the field is read at the table
\* position when the entry is 0
Accessor_NoPresenceTest(tab, acc) ==
  LET r == TableOffset(tab, acc.voffset)
      o == r.val
  IN  IF ~r.ok THEN [status |-> "error", val |-> 0, o |-> 0, gets |-> <<>>]
      ELSE IF GetOk(tab.Bytes, acc.flags, o + tab.Pos)
      THEN [status |-> "ok", val |-> Get(tab.Bytes, acc.flags, o + tab.Pos),
            o |-> o, gets |-> <<o + tab.Pos>>]
      ELSE [status |-> "error", val |-> 0, o |-> o, gets |-> <<o + tab.Pos>>]

\* a generated accessor: look the field's vtable entry up; when it is not 0
\* read the field at that distance from the table position (bool() of it for
\* a Bool field), otherwise return the default.  gets lists the positions the
\* accessor itself reads after the lookup.
Accessor(tab, acc) ==
  LET r == TableOffset(tab, acc.voffset)
      o == r.val
  IN  IF ~r.ok THEN [status |-> "error", val |-> 0, o |-> 0, gets |-> <<>>]
      ELSE IF o # 0
      THEN IF GetOk(tab.Bytes, acc.flags, o + tab.Pos)
           THEN [status |-> "ok", val |-> Get(tab.Bytes, acc.flags, o + tab.Pos),
                 o |-> o, gets |-> <<o + tab.Pos>>]
           ELSE [status |-> "error", val |-> 0, o |-> o, gets |-> <<o + tab.Pos>>]
      ELSE [status |-> "ok", val |-> acc.default, o |-> 0, gets |-> <<>>]

\* GetRootAs<T> initialising the view at n instead of n + offset
GetRootAs_NoOffset(T, buf, offset) ==
  IF GetOk(buf, "UOffset", offset)
  THEN [status |-> "ok", type |-> T, offset |-> offset, gets |-> <<offset>>,
        tab |-> Table(buf, Get(buf, "UOffset", offset))]
  ELSE [status |-> "error", type |-> T, offset |-> offset, gets |-> <<offset>>,
        tab |-> Table(buf, 0)]

\* GetRootAs<T>: read the uoffset n at `offset`, return a view at n + offset;
\* gets lists the positions the call reads
GetRootAs(T, buf, offset) ==
  IF GetOk(buf, "UOffset", offset)
  THEN [status |-> "ok", type |-> T, offset |-> offset, gets |-> <<offset>>,
        tab |-> Table(buf, Get(buf, "UOffset", offset) + offset)]
  ELSE [status |-> "error", type |-> T, offset |-> offset, gets |-> <<offset>>,
        tab |-> Table(buf, 0)]

(***************************************************************************)
(* State.                                                                  *)
(***************************************************************************)
VARIABLES
  builder,    \* the flatbuffers.Builder the binding functions are called on
  curType,    \* the table type whose Start function opened the current object
  curAdds,    \* the Add calls made on the current object: <<[field, x]>>
  open,       \* objects started and not yet ended
  tables,     \* the completed tables: type, offset returned by End, offset at
              \* Start, Add calls made, content of the vtable
  err,        \* the exception that aborted the construction, or "none"
  view,       \* the result of the last GetRootAs call, or NoView
  lastRead,   \* the result of the last accessor call on the view, or NoRead
  data,       \* js2h5: the keys of the JSON object, in iteration order
  idx,        \* js2h5: number of keys processed
  val_grp,    \* js2h5: the datasets of group "value": name -> [key, dtype]
  name_attrs  \* js2h5: the attributes of group "name": name -> string

vars ==
  <<builder, curType, curAdds, open, tables, err, view, lastRead,
    data, idx, val_grp, name_attrs>>

bvars == <<builder, curType, curAdds, open, tables, err, view, lastRead>>
jvars == <<data, idx, val_grp, name_attrs>>

NoType == "none"
NoView == [status |-> "none"]
NoRead == [status |-> "none"]

\* the values the callers pass to the Add functions (True and False as 1 and 0)
Int8Values == {-1, 0}
Int32Values == {-258, 0}
BoolValues == {0, 1}

ValuesOf(flags) ==
  CASE flags = "Int8"  -> Int8Values
    [] flags = "Int32" -> Int32Values
    [] flags = "Bool"  -> BoolValues

\* the byte offsets GetRootAs is called with
RootOffsets == {0, 4}

NumAdds == Len(curAdds) + (LET RECURSIVE Sum(_)
                               Sum(i) == IF i = 0 THEN 0 ELSE Len(tables[i].adds) + Sum(i - 1)
                           IN  Sum(Len(tables)))

\* the Start, Add and End calls made so far
NumCalls == 2 * Len(tables) + NumAdds + (IF builder.nested THEN 1 ELSE 0)

AddedFields == {curAdds[i].field : i \in 1..Len(curAdds)}

(***************************************************************************)
(* Builder-side operations of the bindings.                                *)
(***************************************************************************)
BuilderInit ==
  /\ builder = NewBuilder
  /\ curType = NoType
  /\ curAdds = <<>>
  /\ open = 0
  /\ tables = <<>>
  /\ err = "none"
  /\ view = NoView
  /\ lastRead = NoRead

\* <T>Start(builder): StartObject asserts that no object is open
Start(T) ==
  /\ err = "none"
  /\ ~builder.finished
  /\ NumCalls < MaxCalls
  /\ IF ~assertNotNested(builder)
     THEN /\ err' = "IsNestedError"
          /\ UNCHANGED <<builder, curType, curAdds, open>>
     ELSE /\ builder' = StartObject(builder, StartOf(T))
          /\ curType' = T
          /\ curAdds' = <<>>
          /\ open' = open + 1
          /\ err' = "none"
  /\ UNCHANGED <<tables, view, lastRead, jvars>>

\* <T>Add<Field>(builder, x) on the open object of type T
Add(f, x) ==
  /\ err = "none"
  /\ builder.nested
  /\ f \in DOMAIN AddOf(curType)
  /\ f \notin AddedFields
  /\ NumCalls < MaxCalls
  /\ LET a == AddOf(curType)[f]
     IN  /\ x \in ValuesOf(a.flags)
         /\ IF x # a.d /\ a.slot >= Len(builder.current_vtable)
            THEN /\ err' = "IndexError"
                 /\ UNCHANGED <<builder, curAdds>>
            ELSE /\ builder' = PrependSlot(builder, a.flags, a.slot, x, a.d)
                 /\ curAdds' = Append(curAdds, [field |-> f, x |-> x])
                 /\ err' = "none"
  /\ UNCHANGED <<curType, open, tables, view, lastRead, jvars>>

\* <T>End(builder)
End ==
  /\ err = "none"
  /\ builder.nested
  /\ NumCalls < MaxCalls
  /\ builder' = EndObject(builder)
  /\ tables' = Append(tables, [type |-> curType, off |-> EndObjectOffset(builder),
                               end |-> builder.objectEnd, adds |-> curAdds,
                               vt |-> VtableContent(TrimTrailingZeros(builder.current_vtable),
                                                    EndObjectOffset(builder),
                                                    builder.objectEnd)])
  /\ curType' = NoType
  /\ curAdds' = <<>>
  /\ open' = open - 1
  /\ UNCHANGED <<err, view, lastRead, jvars>>

\* builder.Finish(root) with one of the completed tables as root
FinishBuffer ==
  /\ err = "none"
  /\ ~builder.nested
  /\ ~builder.finished
  /\ \E i \in 1..Len(tables) : builder' = Finish(builder, tables[i].off)
  /\ UNCHANGED <<curType, curAdds, open, tables, err, view, lastRead, jvars>>

(***************************************************************************)
(* Reader-side operations of the bindings, on the finished buffer.         *)
(***************************************************************************)
Output == builder.Bytes

\* <T>.GetRootAs<T>(Output, offset), once per finished buffer
OpenRoot(T, offset) ==
  /\ builder.finished
  /\ view = NoView
  /\ view' = GetRootAs(T, Output, offset)
  /\ lastRead' = NoRead
  /\ UNCHANGED <<builder, curType, curAdds, open, tables, err, jvars>>

\* one accessor call on the view
Read(f) ==
  /\ view.status = "ok"
  /\ lastRead = NoRead
  /\ f \in DOMAIN AccessorsOf(view.type)
  /\ lastRead' = [field |-> f, acc |-> AccessorsOf(view.type)[f]] @@
                 Accessor(view.tab, AccessorsOf(view.type)[f])
  /\ UNCHANGED <<builder, curType, curAdds, open, tables, err, view, jvars>>

Fields == UNION {DOMAIN AccessorsOf(T) : T \in Types}

(***************************************************************************)
(* js2h5: the loop over the keys of the JSON object.                       *)
(***************************************************************************)
h5dtypes ==
  [float32 |-> ">f4", uint8 |-> "u1", bool |-> "u1", int32 |-> "int32", int64 |-> "int64"]

Keys ==
  {"word_ids", "last_label_id", "gazet_vecs", "reference_capsule_probs",
   "seq_len", "0"}

\* the sequences of at most n distinct keys: a JSON object in iteration order
RECURSIVE KeySeqs(_)
KeySeqs(n) ==
  IF n = 0 THEN {<<>>}
  ELSE KeySeqs(n - 1) \cup
       {Append(s, k) : s \in {q \in KeySeqs(n - 1) : Len(q) = n - 1}, k \in Keys}

Distinct(s) == \A i, j \in 1..Len(s) : i # j => s[i] # s[j]

JsInit ==
  /\ data \in {s \in KeySeqs(MaxKeys) : Distinct(s)}
  /\ idx = 0
  /\ val_grp = <<>>
  /\ name_attrs = <<>>

\* DatasetOf with the names of word_ids and last_label_id exchanged
DatasetOf_Swapped(t) ==
  IF t = "gazet_vecs" THEN [name |-> "2", dtype |-> h5dtypes["float32"]]
  ELSE IF t = "last_label_id" THEN [name |-> "0", dtype |-> h5dtypes["int32"]]
  ELSE IF t = "word_ids" THEN [name |-> "1", dtype |-> h5dtypes["int32"]]
  ELSE IF t = "reference_capsule_probs"
       THEN [name |-> "expected", dtype |-> h5dtypes["float32"]]
  ELSE [name |-> "", dtype |-> ""]

\* the dataset name and dtype a key is stored under, or "" for an ignored key
DatasetOf(t) ==
  IF t = "gazet_vecs" THEN [name |-> "2", dtype |-> h5dtypes["float32"]]
  ELSE IF t = "last_label_id" THEN [name |-> "1", dtype |-> h5dtypes["int32"]]
  ELSE IF t = "word_ids" THEN [name |-> "0", dtype |-> h5dtypes["int32"]]
  ELSE IF t = "reference_capsule_probs"
       THEN [name |-> "expected", dtype |-> h5dtypes["float32"]]
  ELSE [name |-> "", dtype |-> ""]

\* one iteration of `for idx, t in enumerate(data)`
Step ==
  /\ idx < Len(data)
  /\ LET t == data[idx + 1]
         ds == DatasetOf(t)
     IN  IF ds.name # ""
         THEN /\ ds.name \notin DOMAIN val_grp   \* create_dataset fails on an existing name
              /\ val_grp' = val_grp @@ (ds.name :> [key |-> t, dtype |-> ds.dtype])
              /\ name_attrs' = [n \in DOMAIN name_attrs \cup {ds.name} |->
                                  IF n = ds.name THEN t ELSE name_attrs[n]]
         ELSE UNCHANGED <<val_grp, name_attrs>>
  /\ idx' = idx + 1
  /\ UNCHANGED <<data, bvars>>

(***************************************************************************)
(* Specifications.                                                         *)
(***************************************************************************)
Init == BuilderInit /\ data = <<>> /\ idx = 0 /\ val_grp = <<>> /\ name_attrs = <<>>

Next ==
  \/ \E T \in Types : Start(T)
  \/ \E f \in Fields, x \in Int8Values \cup Int32Values \cup BoolValues : Add(f, x)
  \/ End
  \/ FinishBuffer
  \/ \E T \in Types, offset \in RootOffsets : OpenRoot(T, offset)
  \/ \E f \in Fields : Read(f)

Spec == Init /\ [][Next]_vars

InitJs == BuilderInit /\ JsInit

NextJs == Step

SpecJs == InitJs /\ [][NextJs]_vars

(***************************************************************************)
(* Definitions shared by the properties.                                   *)
(***************************************************************************)
\* the schema default of a field: 0 for an integer field, False for a bool
SchemaDefault(flags) == IF flags = "Bool" THEN FALSE ELSE 0

\* the value an accessor of number type flags returns for a stored x
AsRead(flags, x) == IF flags = "Bool" THEN x # 0 ELSE x

\* the position of completed table i in the bytes written so far
TablePos(i) == Len(builder.Bytes) - tables[i].off

\* the view is positioned at completed table i
ViewAt(i) == view.status = "ok" /\ view.offset = 0 /\ view.tab.Pos = TablePos(i)

\* the Add calls of table t that were for field f
AddsOf(t, f) == {k \in 1..Len(t.adds) : t.adds[k].field = f}

\* what reading field f of table t must yield: the value added, else the default
Expected(t, f) ==
  LET flags == AddOf(t.type)[f].flags
  IN  IF AddsOf(t, f) = {} THEN SchemaDefault(flags)
      ELSE AsRead(flags, t.adds[CHOOSE k \in AddsOf(t, f) : TRUE].x)

(***************************************************************************)
(* C1: a generated accessor returns the schema default (0, False) without  *)
(* reading any field bytes when the vtable entry it looks up is 0, and     *)
(* otherwise returns the value stored at table position + entry (its only  *)
(* read; the call fails when that position is outside the buffer).         *)
(***************************************************************************)
C1_AccessorDefaultOrStored ==
  lastRead.status # "none" =>
    LET tab == view.tab
        acc == AccessorsOf(view.type)[lastRead.field]
        r == TableOffset(tab, acc.voffset)
        at == tab.Pos + r.val
    IN  r.ok =>
          IF r.val = 0
          THEN /\ lastRead.status = "ok"
               /\ lastRead.val = SchemaDefault(acc.flags)
               /\ lastRead.gets = <<>>
          ELSE /\ lastRead.gets = <<at>>
               /\ lastRead.status = "ok" <=> GetOk(tab.Bytes, acc.flags, at)
               /\ lastRead.status = "ok" =>
                    lastRead.val = Unpack(acc.flags,
                                          SubSeq(tab.Bytes, GetStart(tab.Bytes, at) + 1,
                                                 GetStart(tab.Bytes, at) + BYTEWIDTH[acc.flags]))

\* a stored Int32 field was read back, and a field with entry 0 elsewhere
C1_Witness ==
  /\ lastRead.status = "ok"
  /\ lastRead.o # 0
  /\ lastRead.gets = <<view.tab.Pos + lastRead.o>>
  /\ lastRead.val = -258

(***************************************************************************)
(* C2: round trip.  Reading, through GetRootAs<T> at offset 0 of the       *)
(* finished buffer, a field of a root table built with T's Start, Add and  *)
(* End functions yields the value added, or the schema default when the    *)
(* field was not added.                                                    *)
(***************************************************************************)
C2_RoundTrip ==
  \A i \in 1..Len(tables) :
    (lastRead.status # "none" /\ ViewAt(i) /\ view.type = tables[i].type) =>
      /\ lastRead.status = "ok"
      /\ lastRead.val = Expected(tables[i], lastRead.field)

\* a FullyConnectedOptions root with three fields added, read back
C2_Witness ==
  \E i \in 1..Len(tables) :
    /\ ViewAt(i)
    /\ view.type = "FullyConnectedOptions"
    /\ tables[i].type = "FullyConnectedOptions"
    /\ Len(tables[i].adds) = 3
    /\ lastRead.status = "ok"
    /\ lastRead.o # 0
    /\ lastRead.field = "WeightsFormat"
    /\ lastRead.val = -1

(***************************************************************************)
(* Definitions about the vtable a completed table refers to.               *)
(***************************************************************************)
\* the position of the vtable table i refers to, in the bytes written so far
VtablePos(i) == TablePos(i) - Get(builder.Bytes, "SOffset", TablePos(i))

\* the number of field slots that vtable holds
VtableSlots(i) == (Get(builder.Bytes, "VOffset", VtablePos(i)) - 4) \div 2

\* the table size that vtable declares
VtableTableSize(i) == Get(builder.Bytes, "VOffset", VtablePos(i) + 2)

\* the fields of table type W declared at slot s with number type flags
FieldsAt(W, s, flags) ==
  {g \in DOMAIN AddOf(W) : AddOf(W)[g].slot = s /\ AddOf(W)[g].flags = flags}

(***************************************************************************)
(* C3: schema evolution.  An accessor for a field whose declared slot is   *)
(* not held by the table's vtable (the table was written with fewer slots) *)
(* returns the schema default, reads no field bytes and raises no error; a *)
(* reader type declaring fewer slots than the vtable holds reads, for each *)
(* of its own fields, what the writer stored in that slot.                 *)
(***************************************************************************)
C3_Compatibility ==
  \A i \in 1..Len(tables) :
    (lastRead.status # "none" /\ ViewAt(i)) =>
      LET R == view.type
          W == tables[i].type
          f == lastRead.field
          s == AddOf(R)[f].slot
          flags == AddOf(R)[f].flags
      IN  /\ s >= VtableSlots(i) =>
                /\ lastRead.status = "ok"
                /\ lastRead.val = SchemaDefault(flags)
                /\ lastRead.gets = <<>>
          /\ StartOf(R) < VtableSlots(i) =>
                \A g \in FieldsAt(W, s, flags) :
                   /\ lastRead.status = "ok"
                   /\ lastRead.val = Expected(tables[i], g)

\* a FullyConnectedOptions table written with slots 0..1 only, read through
\* KeepNumDims
C3_Witness ==
  \E i \in 1..Len(tables) :
    /\ ViewAt(i)
    /\ tables[i].type = "FullyConnectedOptions"
    /\ VtableSlots(i) = 2
    /\ view.type = "FullyConnectedOptions"
    /\ lastRead.status = "ok"
    /\ lastRead.field = "KeepNumDims"
    /\ lastRead.val = FALSE

\* a FullyConnectedOptions table with four slots read through MulOptions
C3_WitnessFewerSlots ==
  \E i \in 1..Len(tables) :
    /\ ViewAt(i)
    /\ tables[i].type = "FullyConnectedOptions"
    /\ VtableSlots(i) = 4
    /\ view.type = "MulOptions"
    /\ lastRead.status = "ok"
    /\ lastRead.val = -1

(***************************************************************************)
(* C4: default omission.  An Add call with the schema default 0 writes     *)
(* nothing; the completed table has no vtable entry for that field and the *)
(* accessor returns the default, as for a field never added.  A table with *)
(* no non-default field has a vtable without slots and holds only the      *)
(* vtable back-pointer and the padding that aligns it (none when the table *)
(* is started at a multiple of 4).                                         *)
(***************************************************************************)
\* the fields of table t added with the schema default
DefaultAdded(t) == {f \in DOMAIN AddOf(t.type) : \E k \in AddsOf(t, f) : t.adds[k].x = 0}

AllDefault(t) == \A k \in 1..Len(t.adds) : t.adds[k].x = 0

C4_Omitted(i) ==
  LET t == tables[i]
      tab == Table(builder.Bytes, TablePos(i))
  IN  /\ \A f \in DefaultAdded(t) :
           /\ TableOffset(tab, 4 + 2 * AddOf(t.type)[f].slot) = Got(0)
           /\ Accessor(tab, AccessorsOf(t.type)[f]).status = "ok"
           /\ Accessor(tab, AccessorsOf(t.type)[f]).gets = <<>>
           /\ Accessor(tab, AccessorsOf(t.type)[f]).val =
                SchemaDefault(AddOf(t.type)[f].flags)
      /\ AllDefault(t) => VtableSlots(i) = 0

VtableAt(pos) ==
  SubSeq(builder.Bytes, pos + 1, pos + Get(builder.Bytes, "VOffset", pos))

C5_VtableDedup ==
  /\ \A a, b \in 1..Len(builder.vtables) :
       a # b => VtableBytesAt(builder.Bytes, builder.vtables[a])
                  # VtableBytesAt(builder.Bytes, builder.vtables[b])
  /\ \A i \in 1..Len(tables) :
       /\ Len(builder.Bytes) - VtablePos(i) \in {builder.vtables[a] : a \in 1..Len(builder.vtables)}
       /\ VtableAt(VtablePos(i)) = PackVOffsets(tables[i].vt)
  /\ \A i, j \in 1..Len(tables) :
       tables[i].vt = tables[j].vt => VtablePos(i) = VtablePos(j)

\* the fields present in table t: slot and number type of each non-default Add
Present(t) ==
  {<<AddOf(t.type)[t.adds[k].field].slot, AddOf(t.type)[t.adds[k].field].flags>> :
     k \in {k \in 1..Len(t.adds) : t.adds[k].x # 0}}

\* a table of type MulOptions or SubOptions with only FusedActivationFunction set
OnlyActivationSet(t) ==
  /\ t.type \in {"MulOptions", "SubOptions"}
  /\ Len(t.adds) = 1
  /\ t.adds[1].x # 0

\* the claim as stated: the same present fields of the same types and sizes
\* suffice, as for any two MulOptions / SubOptions tables with only
\* FusedActivationFunction set
C5_Original ==
  /\ \A i, j \in 1..Len(tables) :
       (Present(tables[i]) = Present(tables[j]) /\ tables[i].vt[2] = tables[j].vt[2])
         => VtablePos(i) = VtablePos(j)
  /\ \A i, j \in 1..Len(tables) :
       (OnlyActivationSet(tables[i]) /\ OnlyActivationSet(tables[j]))
         => VtablePos(i) = VtablePos(j)

\* two tables with a present field share one vtable
C5_Witness ==
  \E i, j \in 1..Len(tables) :
    /\ i # j
    /\ Present(tables[i]) # {}
    /\ tables[i].vt = tables[j].vt
    /\ VtablePos(i) = VtablePos(j)
    /\ Len(builder.vtables) = 1

(***************************************************************************)
(* C6: single active object.  At most one object is open at any time; a    *)
(* Start call while an object is open raises IsNestedError and opens       *)
(* nothing, a Start call while none is open (initially, or after End)      *)
(* opens one.                                                              *)
(***************************************************************************)
C6_SingleActiveObject ==
  /\ [](open <= 1 /\ (builder.nested <=> open = 1))
  /\ [][(\E T \in Types : Start(T)) =>
          IF builder.nested
          THEN err' = "IsNestedError" /\ open' = open /\ builder' = builder
          ELSE err' = "none" /\ open' = 1 /\ builder'.nested]_vars

\* a Start after an End succeeded, and a Start on the open object was refused
C6_Witness ==
  /\ Len(tables) >= 1
  /\ builder.nested
  /\ open = 1
  /\ err = "IsNestedError"

(***************************************************************************)
(* C7: GetRootAs<T>(buf, offset) reads only the uoffset n at `offset` and  *)
(* returns a view of buf positioned at n + offset, whether or not that     *)
(* position lies inside buf.                                               *)
(***************************************************************************)
C7_RootView ==
  view.status = "ok" =>
    /\ view.gets = <<view.offset>>
    /\ view.tab.Bytes = Output
    /\ view.tab.Pos = Get(Output, "UOffset", view.offset) + view.offset

\* the claim as stated: the position of the view was validated against buf
C7_Original ==
  /\ C7_RootView
  /\ view.status = "ok" => view.tab.Pos \in 0..(Len(Output) - 1)

\* a view positioned beyond the end of the buffer, no field read yet
C7_Witness ==
  /\ view.status = "ok"
  /\ view.offset = 4
  /\ view.tab.Pos >= Len(Output)
  /\ lastRead = NoRead

(***************************************************************************)
(* C9: builder and reader agree on the layout.  For every field of every   *)
(* table type the accessor's vtable offset is 4 + 2 * the slot the Add     *)
(* function writes, both use the same number type, the default returned is *)
(* the default passed to the builder, and the slot is below the field      *)
(* count given to StartObject, so that no Add call fails on its slot.      *)
(***************************************************************************)
C9_LayoutAgreement ==
  /\ \A T \in Types :
       /\ DOMAIN AddOf(T) = DOMAIN AccessorsOf(T)
       /\ \A f \in DOMAIN AddOf(T) :
            /\ AccessorsOf(T)[f].voffset = 4 + 2 * AddOf(T)[f].slot
            /\ AccessorsOf(T)[f].flags = AddOf(T)[f].flags
            /\ AccessorsOf(T)[f].default = AsRead(AddOf(T)[f].flags, AddOf(T)[f].d)
            /\ AddOf(T)[f].slot < StartOf(T)
  /\ err # "IndexError"
  /\ builder.nested =>
       \A k \in 1..Len(curAdds) :
         curAdds[k].x # 0 => builder.current_vtable[AddOf(curType)[curAdds[k].field].slot + 1] # 0

\* AlignCorners written through slot 2 and read through vtable offset 8
C9_Witness ==
  \E i \in 1..Len(tables) :
    /\ ViewAt(i)
    /\ tables[i].type = "ResizeBilinearOptions"
    /\ view.type = "ResizeBilinearOptions"
    /\ lastRead.status = "ok"
    /\ lastRead.o # 0
    /\ lastRead.val = TRUE

(***************************************************************************)
(* C10: js2h5.  After any number of iterations the datasets of group       *)
(* "value" and the attributes of group "name" carry the same names, all    *)
(* among '0', '1', '2', 'expected'; each recognised key processed so far   *)
(* has its fixed name, with the key as attribute value; other keys create  *)
(* nothing.                                                                *)
(***************************************************************************)
Processed == {data[k] : k \in 1..idx}

C10_Name(k) ==
  CASE k = "word_ids" -> "0"
    [] k = "last_label_id" -> "1"
    [] k = "gazet_vecs" -> "2"
    [] k = "reference_capsule_probs" -> "expected"
    [] OTHER -> ""

C10_DatasetsMatchAttrs ==
  /\ DOMAIN val_grp = DOMAIN name_attrs
  /\ DOMAIN val_grp \subseteq {"0", "1", "2", "expected"}
  /\ DOMAIN val_grp = {C10_Name(k) : k \in Processed} \ {""}
  /\ \A k \in Processed :
       C10_Name(k) # "" => /\ name_attrs[C10_Name(k)] = k
                           /\ val_grp[C10_Name(k)].key = k

\* three keys processed, one of them ignored although it is named '0'
C10_Witness ==
  /\ idx = 3
  /\ idx = Len(data)
  /\ "0" \in Processed
  /\ DOMAIN val_grp = {"0", "expected"}
  /\ name_attrs["0"] = "word_ids"

====
